---- MODULE Spec2Model ----
(***************************************************************************)
(* Scanner of src/c_drive_cleaner/scanner.py as a state machine.           *)
(*                                                                         *)
(* One Scanner object (drive selector, result mapping, cancellation flag), *)
(* the rule list CLEANUP_ITEMS, a small file system with access faults,    *)
(* and one scanning thread running scan_all step by step (one directory    *)
(* entry per step) while another thread may call cancel() between any two  *)
(* steps.  A walker's test of the flag and its handling of the entry it    *)
(* then takes are one step; the statements of scan_all before the loop,    *)
(* the loop's flag test (with the progress notification of the rule that   *)
(* passes it) and the dispatch of a rule are steps of their own.           *)
(* Python strings are sequences of one-character strings, so that lower(), *)
(* startswith(), slicing and the substring test are computed.              *)
(***************************************************************************)
EXTENDS Integers, Sequences, FiniteSets, TLC

VARIABLES
    drive,            \* self.drive
    progress_callback,\* self.progress_callback is given (TRUE) or None (FALSE)
    psutil_ok,        \* environment: psutil.disk_partitions() works
    faults,           \* environment: which file-system accesses fail
    rules,            \* CLEANUP_ITEMS
    results,          \* self.results
    cancelled,        \* self._cancelled
    pc,               \* position of the scanning thread in scan_all
    index,            \* scan_all: index of the rule in the loop (1-based)
    cur,              \* the ScanResult under construction (local `result`)
    ti,               \* _scan_item: position in item["paths"]
    target_paths,     \* _scan_item: target_paths
    pi,               \* _scan_item: position in target_paths
    drives,           \* _scan_developer_junk: drives
    di,               \* _scan_developer_junk: position in drives
    stack,            \* call stack of _scan_directory / _depth_search / _get_dir_size_for_scan
    exc,              \* exception that left the outermost walker frame ("none" if none)
    run,              \* history: number of scan_all invocations so far
    cancel_requested, \* history: cancel() ran since the current scan_all was entered
    faulted,          \* history: rule indexes of this run during which an access failed
    discarded,        \* history: the keys the last results.clear() threw away
    notified,         \* history: the calls of progress_callback by this scan_all
    queries,          \* history: the calls of SHQueryRecycleBinW by this scan_all
    returned,         \* history: what the scan_all before returned, if no cancel() ran in it
    selected          \* the call of get_selected_size since the last scan_all, if any

vars == <<drive, progress_callback, psutil_ok, faults, rules, results, cancelled, pc,
          index, cur, ti, target_paths, pi, drives, di, stack, exc, run,
          cancel_requested, faulted, discarded, notified, queries, returned, selected>>

(***************************************************************************)
(* Bounds of the model.                                                    *)
(***************************************************************************)
MaxRuns == 2

\* the length of the longest rule list
MaxRules == 50

(***************************************************************************)
(* Strings.                                                                *)
(***************************************************************************)
BS == "\\"

UpperLetters == <<"A","B","C","D","E","F","G","H","I","J","K","L","M",
                  "N","O","P","Q","R","S","T","U","V","W","X","Y","Z">>
LowerLetters == <<"a","b","c","d","e","f","g","h","i","j","k","l","m",
                  "n","o","p","q","r","s","t","u","v","w","x","y","z">>

LowerOf == [c \in {UpperLetters[i] : i \in 1..26} |->
               LowerLetters[CHOOSE i \in 1..26 : UpperLetters[i] = c]]
UpperOf == [c \in {LowerLetters[i] : i \in 1..26} |->
               UpperLetters[CHOOSE i \in 1..26 : LowerLetters[i] = c]]

lower_char(c) == IF c \in DOMAIN LowerOf THEN LowerOf[c] ELSE c

upper_char(c) == IF c \in DOMAIN UpperOf THEN UpperOf[c] ELSE c

\* str.lower()
lower(s) == [i \in 1..Len(s) |-> lower_char(s[i])]

\* str.upper()
upper(s) == [i \in 1..Len(s) |-> upper_char(s[i])]

\* str.startswith(p)
startswith(s, p) == Len(s) >= Len(p) /\ SubSeq(s, 1, Len(p)) = p

\* `p in s` for strings
contains(s, p) ==
    \E i \in 1..(Len(s) - Len(p) + 1) : SubSeq(s, i, i + Len(p) - 1) = p

\* s[2:]
slice2(s) == SubSeq(s, 3, Len(s))

\* the last component of a Windows path
basename(p) ==
    LET seps == {i \in 1..Len(p) : p[i] = BS}
        last == IF seps = {} THEN 0 ELSE CHOOSE i \in seps : \A j \in seps : j <= i
    IN SubSeq(p, last + 1, Len(p))

\* pathlib: Path(p).suffix
suffix(p) ==
    LET name == basename(p)
        dots == {i \in 1..Len(name) : name[i] = "."}
        i    == IF dots = {} THEN 0 ELSE CHOOSE k \in dots : \A j \in dots : j <= k
    IN IF i <= 1 \/ i = Len(name) THEN <<>> ELSE SubSeq(name, i, Len(name))

\* os.path.join(directory, name) as os.scandir builds entry.path
join(d, name) == IF d[Len(d)] = BS THEN d \o name ELSE d \o <<BS>> \o name

\* Scanner.__init__: drive.upper().replace("\\", "")
normalize_drive(d) == SelectSeq(upper(d), LAMBDA c : c # BS)

ALL == <<"A","L","L">>

(***************************************************************************)
(* Floating point.  index / total_items is Python's true division of two   *)
(* ints and * 100 a multiplication of floats: both are IEEE 754 binary64,  *)
(* rounded to nearest, ties to even.  A positive float is [m, k]: its      *)
(* value is M * 2^-k, the mantissa M < 2^MANT_DIG held as three limbs      *)
(* m = <<low, middle, high>> of LimbBits bits; all zero is 0.0.  The ints  *)
(* divided are small (i < n < 2^10), so every step fits in 32 bits.        *)
(***************************************************************************)
MANT_DIG == 53

LimbBits == 20

Limb == 2^LimbBits

RECURSIVE pow2mod(_, _)
\* 2^j mod n
pow2mod(j, n) ==
    IF j <= LimbBits THEN (2^j) % n
    ELSE (((2^LimbBits) % n) * pow2mod(j - LimbBits, n)) % n

\* (i * 2^j) mod n
remainder(i, n, j) == (i * pow2mod(j, n)) % n

\* the j-th binary digit of i / n after the point
fraction_bit(i, n, j) == (2 * remainder(i, n, j - 1)) \div n

\* the number of binary digits of x > 0
bit_length(x) == CHOOSE b \in 1..31 : 2^(b - 1) <= x /\ (b = 31 \/ x < 2^b)

\* M + u for u in {0, 1}
add_ulp(m, u) ==
    LET a0 == m[1] + u
        a1 == m[2] + a0 \div Limb
    IN <<a0 % Limb, a1 % Limb, m[3] + a1 \div Limb>>

\* i / n for ints 0 <= i < n: the float nearest to the quotient.  With the
\* first 1 digit at place `first`, M is the first k = first + MANT_DIG - 1
\* digits, and what is left of the quotient decides the rounding
true_divide(i, n) ==
    IF i = 0 THEN [m |-> <<0, 0, 0>>, k |-> 0]
    ELSE LET first == CHOOSE j \in 1..LimbBits :
                         /\ fraction_bit(i, n, j) = 1
                         /\ \A l \in 1..(j - 1) : fraction_bit(i, n, l) = 0
             k     == first + MANT_DIG - 1
             m     == << (Limb * remainder(i, n, k - LimbBits)) \div n,
                         (Limb * remainder(i, n, k - 2 * LimbBits)) \div n,
                         (i * 2^(k - 2 * LimbBits)) \div n >>
             rest  == 2 * remainder(i, n, k)
             up    == rest > n \/ (rest = n /\ m[1] % 2 = 1)
         IN [m |-> add_ulp(m, IF up THEN 1 ELSE 0), k |-> k]

\* f * 100: the exact product P, then the d digits beyond MANT_DIG rounded off
float_mul_100(f) ==
    IF f.m = <<0, 0, 0>> THEN f
    ELSE LET c0 == f.m[1] * 100
             c1 == f.m[2] * 100 + c0 \div Limb
             c2 == f.m[3] * 100 + c1 \div Limb
             p  == <<c0 % Limb, c1 % Limb, c2>>
             d  == 2 * LimbBits + bit_length(c2) - MANT_DIG
             low == p[1] % 2^d
             odd == (p[1] \div 2^d) % 2 = 1
             up  == low > 2^(d - 1) \/ (low = 2^(d - 1) /\ odd)
             shifted == << p[1] \div 2^d + (p[2] % 2^d) * 2^(LimbBits - d),
                           p[2] \div 2^d + (p[3] % 2^d) * 2^(LimbBits - d),
                           p[3] \div 2^d >>
         IN [m |-> add_ulp(shifted, IF up THEN 1 ELSE 0), k |-> f.k - d]

\* int(f) of a float below 2^(MANT_DIG - 2 * LimbBits): the fraction is cut off
float_int(f) ==
    IF f.m = <<0, 0, 0>> \/ f.k - 2 * LimbBits > 30 THEN 0
    ELSE f.m[3] \div 2^(f.k - 2 * LimbBits)

\* scan_all: int((index / total_items) * 100), index counted from 0
progress_percent(i, total_items) == float_int(float_mul_100(true_divide(i, total_items)))

(***************************************************************************)
(* config.py (not among the sources): the age threshold and the junk names.*)
(***************************************************************************)
AGE_THRESHOLD_DAYS == 30

DEVELOPER_CLEAN_RULES == { <<"o","b","j">>, <<"b","i","n">>, <<".","v","s">> }

\* _scan_developer_junk: now = time.time()
Now == 3000000

\* _scan_developer_junk: threshold_seconds
threshold_seconds == AGE_THRESHOLD_DAYS * 24 * 3600

\* _scan_developer_junk: the max_depth argument
max_depth == 6

\* _scan_developer_junk: skip_dirs
skip_dirs == {
    <<"w","i","n","d","o","w","s">>,
    <<"p","r","o","g","r","a","m"," ","f","i","l","e","s">>,
    <<"p","r","o","g","r","a","m"," ","f","i","l","e","s"," ","(","x","8","6",")">>,
    <<"p","r","o","g","r","a","m","d","a","t","a">>,
    <<"a","p","p","d","a","t","a">>,
    <<".","g","i","t">>,
    <<".","s","v","n">>,
    <<"s","y","s","t","e","m"," ","v","o","l","u","m","e"," ","i","n","f","o","r","m","a","t","i","o","n">>,
    <<"$","r","e","c","y","c","l","e",".","b","i","n">>,
    <<"r","e","c","o","v","e","r","y">>,
    <<"m","s","o","c","a","c","h","e">> }

(***************************************************************************)
(* The file system the scan reads: node n of FS has a parent (0 for a      *)
(* drive root), a name, a kind, a size and a modification time.            *)
(***************************************************************************)
Boundary == Now - threshold_seconds   \* age = threshold exactly
Stale    == Boundary - 1000           \* age > threshold
Recent   == Now - 1000                \* age < threshold

Nd(p, nm, k, sz, mt) == [parent |-> p, name |-> nm, kind |-> k, size |-> sz, mtime |-> mt]

FS == <<
    Nd(0,  <<"C",":">>,          "dir",  0,   Recent),   \*  1  C:\
    Nd(1,  <<"T">>,              "dir",  0,   Recent),   \*  2  C:\T
    Nd(2,  <<"a",".","x">>,      "file", 1,   Recent),   \*  3  C:\T\a.x
    Nd(2,  <<"B",".","X">>,      "file", 2,   Recent),   \*  4  C:\T\B.X
    Nd(2,  <<"k">>,              "dir",  0,   Recent),   \*  5  C:\T\k
    Nd(5,  <<"c",".","y">>,      "file", 4,   Recent),   \*  6  C:\T\k\c.y
    Nd(5,  <<"m">>,              "dir",  0,   Recent),   \*  7  C:\T\k\m
    Nd(7,  <<"d",".","x">>,      "file", 8,   Recent),   \*  8  C:\T\k\m\d.x
    Nd(2,  <<"z">>,              "dir",  0,   Recent),   \*  9  C:\T\z
    Nd(9,  <<"K","e",".","x">>,  "file", 16,  Recent),   \* 10  C:\T\z\Ke.x
    Nd(9,  <<"f",".","x">>,      "file", 32,  Recent),   \* 11  C:\T\z\f.x
    Nd(9,  <<"l">>,              "link", 0,   Recent),   \* 12  C:\T\z\l  (symbolic link)
    Nd(1,  <<"p">>,              "dir",  0,   Recent),   \* 13  C:\p
    Nd(13, <<"o","b","j">>,      "dir",  0,   Stale),    \* 14  C:\p\obj      stale junk
    Nd(14, <<"g">>,              "file", 64,  Stale),    \* 15  C:\p\obj\g
    Nd(14, <<"s">>,              "dir",  0,   Stale),    \* 16  C:\p\obj\s
    Nd(16, <<"h">>,              "file", 128, Stale),    \* 17  C:\p\obj\s\h
    Nd(13, <<"B","i","n">>,      "dir",  0,   Recent),   \* 18  C:\p\Bin      recent junk name
    Nd(18, <<"O","b","j">>,      "dir",  0,   Stale),    \* 19  C:\p\Bin\Obj  stale junk inside it
    Nd(19, <<"i">>,              "file", 256, Stale),    \* 20  C:\p\Bin\Obj\i
    Nd(13, <<".","v","s">>,      "dir",  0,   Recent),   \* 21  C:\p\.vs      recent junk name, hidden
    Nd(21, <<"o","b","j">>,      "dir",  0,   Stale),    \* 22  C:\p\.vs\obj
    Nd(1,  <<"W","i","n","d","o","w","s">>, "dir", 0, Recent), \* 23  C:\Windows
    Nd(23, <<"o","b","j">>,      "dir",  0,   Stale),    \* 24  C:\Windows\obj
    Nd(0,  <<"D",":">>,          "dir",  0,   Recent),   \* 25  D:\
    Nd(25, <<"T">>,              "dir",  0,   Recent),   \* 26  D:\T
    Nd(26, <<"j",".","x">>,      "file", 512, Recent),   \* 27  D:\T\j.x
    Nd(25, <<"b","i","n">>,      "dir",  0,   Boundary), \* 28  D:\bin        age = threshold
    Nd(28, <<"n">>,              "file", 1024, Stale),   \* 29  D:\bin\n
    Nd(25, <<"1">>,              "dir",  0,   Recent),   \* 30  D:\1                 level 1
    Nd(30, <<"2">>,              "dir",  0,   Recent),   \* 31  D:\1\2
    Nd(31, <<"3">>,              "dir",  0,   Recent),   \* 32  D:\1\2\3
    Nd(32, <<"4">>,              "dir",  0,   Recent),   \* 33  D:\1\2\3\4
    Nd(33, <<"5">>,              "dir",  0,   Recent),   \* 34  D:\1\2\3\4\5
    Nd(34, <<"6">>,              "dir",  0,   Recent),   \* 35  D:\1\2\3\4\5\6         level 6
    Nd(35, <<"7">>,              "dir",  0,   Recent),   \* 36  D:\1\2\3\4\5\6\7       level 7
    Nd(36, <<"o","b","j">>,      "dir",  0,   Stale),    \* 37  D:\1\2\3\4\5\6\7\obj   level 8
    Nd(35, <<"O","B","J">>,      "dir",  0,   Stale)     \* 38  D:\1\2\3\4\5\6\OBJ     level 7
>>

Nodes == 1..Len(FS)

RECURSIVE NodePath(_)
NodePath(n) ==
    IF FS[n].parent = 0 THEN FS[n].name \o <<BS>>
    ELSE join(NodePath(FS[n].parent), FS[n].name)

PathOf == [n \in Nodes |-> lower(NodePath(n))]

\* the node whose lower-cased path is lp, 0 if there is none
ResolveLower(lp) ==
    LET m == {n \in Nodes : PathOf[n] = lp}
    IN IF m = {} THEN 0 ELSE CHOOSE n \in m : TRUE

\* the node a path names (Windows paths ignore case), 0 if there is none
Resolve(p) == ResolveLower(lower(p))

\* os.path.exists(path)
exists(p) == Resolve(p) # 0

RECURSIVE SortedSeq(_)
SortedSeq(S) ==
    IF S = {} THEN <<>>
    ELSE LET m == CHOOSE x \in S : \A y \in S : x <= y
         IN <<m>> \o SortedSeq(S \ {m})

\* os.scandir(directory): the entries of a directory, in a fixed order
scandir == [n \in Nodes |-> SortedSeq({c \in Nodes : FS[c].parent = n})]

RECURSIVE IsUnder(_, _)
\* n lies strictly below directory a
IsUnder(n, a) ==
    /\ FS[n].parent # 0
    /\ (FS[n].parent = a \/ IsUnder(FS[n].parent, a))

RECURSIVE Level(_)
\* number of levels below the drive root
Level(n) == IF FS[n].parent = 0 THEN 0 ELSE 1 + Level(FS[n].parent)

(***************************************************************************)
(* Access faults: faults.stat holds the <<node, exception>> pairs for      *)
(* which entry.stat() raises, faults.list those for which os.scandir of    *)
(* the directory raises.                                                   *)
(***************************************************************************)
Kinds == {"PermissionError", "OSError"}

FaultScenarios == {
    [stat |-> {}, list |-> {}],
    [stat |-> {<<11, "OSError">>, <<17, "OSError">>},
     list |-> {<<7, "PermissionError">>}],
    [stat |-> {<<14, "PermissionError">>, <<3, "PermissionError">>},
     list |-> {<<2, "PermissionError">>, <<16, "OSError">>}],
    [stat |-> {<<3, "OSError">>, <<10, "PermissionError">>},
     list |-> {<<5, "PermissionError">>}] }

FaultIn(S, n) ==
    IF \E k \in Kinds : <<n, k>> \in S
    THEN CHOOSE k \in Kinds : <<n, k>> \in S
    ELSE "none"

\* the exception entry.stat() raises for node n ("none": it succeeds)
StatFault(n) == FaultIn(faults.stat, n)

\* the exception os.scandir(path of n) raises: a path that is no directory
\* raises NotADirectoryError, an OSError
ListFault(n) == IF FS[n].kind # "dir" THEN "OSError" ELSE FaultIn(faults.list, n)

(***************************************************************************)
(* CLEANUP_ITEMS: the rule lists a session may be configured with.  An     *)
(* absent "extensions" or "pattern" is the empty string/list: Python       *)
(* treats both as false.                                                   *)
(***************************************************************************)
Rule(id, special, paths, extensions, pattern) ==
    [id |-> id, name |-> id, special |-> special, paths |-> paths,
     extensions |-> extensions, pattern |-> pattern]

RecycleRule == Rule("recycle", "recycle_bin", <<>>, <<>>, <<>>)
DevRule     == Rule("dev", "developer_mode", <<>>, <<>>, <<>>)

RuleLists == {
    << Rule("temp", "none", << <<"C",":",BS,"T">>, <<"Q">> >>,
            << <<".","x">> >>, <<"k">>),
       RecycleRule, DevRule >>,
    << DevRule,
       Rule("logs", "none", << <<"c",":",BS,"t">>, <<"D",":",BS,"T">> >>,
            << <<".","X">>, <<".","y">> >>, <<>>) >>,
    << RecycleRule,
       Rule("temp", "none", << <<"C",":",BS,"T">> >>, <<>>, <<"K">>) >>,
    << Rule("all", "none", << <<"C",":",BS,"T">> >>, <<>>, <<>>) >>,
    << >> }

\* the rule lists of 1..MaxRules rules without paths
LongRules == [i \in 1..MaxRules |-> Rule(ToString(i), "none", <<>>, <<>>, <<>>)]
LongRuleLists == {SubSeq(LongRules, 1, n) : n \in 1..MaxRules}

\* the drive argument of Scanner(...)
DriveArgs == { <<"c",":",BS>>, <<"D",":">>, <<"e",":">>, <<"a","l","l">> }

\* the selected_ids a caller hands to get_selected_size
SelectedIdLists == { <<"missing">>, <<"temp", "missing">>, <<"dev", "recycle", "dev">>,
                     <<"logs", "all", "temp", "1">> }

\* what SHQueryRecycleBinW may answer: ret (0 is S_OK), or an exception
RecycleAnswers == {
    [raises |-> FALSE, ret |-> 0, i64Size |-> 7, i64NumItems |-> 2],
    [raises |-> FALSE, ret |-> 1, i64Size |-> 0, i64NumItems |-> 0],
    [raises |-> TRUE,  ret |-> 0, i64Size |-> 0, i64NumItems |-> 0] }

(***************************************************************************)
(* The pure parts of the code.                                             *)
(***************************************************************************)
Range(s) == {s[i] : i \in DOMAIN s}

\* Scanner.get_available_drives: the sorted drives, ["C:"] if psutil fails
get_available_drives ==
    IF psutil_ok
    THEN [i \in 1..Cardinality({n \in Nodes : FS[n].parent = 0}) |->
             FS[SortedSeq({n \in Nodes : FS[n].parent = 0})[i]].name]
    ELSE << <<"C",":">> >>

\* _scan_item: the target_paths of one path template
TargetPaths(path_template, drv, avail) ==
    IF drv = ALL
    THEN IF startswith(lower(path_template), <<"c",":">>)
         THEN [i \in 1..Len(avail) |-> avail[i] \o slice2(path_template)]
         ELSE <<path_template>>
    ELSE IF startswith(lower(path_template), <<"c",":">>)
         THEN <<drv \o slice2(path_template)>>
         ELSE <<path_template>>

\* _scan_directory: the extension filter of a file
extension_ok(path, extensions) ==
    extensions = <<>> \/ lower(suffix(path)) \in Range(extensions)

\* _scan_directory: the pattern filter of a file
pattern_ok(path, pattern) ==
    pattern = <<>> \/ contains(lower(path), lower(pattern))

\* sub_pattern that always hands None down
sub_pattern_dropped(path, pattern) == <<>>

\* _scan_directory: the pattern handed to the recursive call for a directory
sub_pattern(path, pattern) ==
    IF pattern # <<>> /\ ~contains(lower(path), lower(pattern))
    THEN pattern
    ELSE <<>>

\* ScanResult(item_id, item_name)
ScanResult(id, name) ==
    [item_id |-> id, item_name |-> name, total_size |-> 0, file_count |-> 0,
     files |-> <<>>, error |-> "None", run |-> run]

NoResult == [item_id |-> "", item_name |-> "", total_size |-> 0, file_count |-> 0,
             files |-> <<>>, error |-> "None", run |-> 0]

\* CountFile that assigns where the code adds
CountFileOverwrites(r, path, size) ==
    [r EXCEPT !.total_size = size, !.file_count = 1, !.files = <<path>>]

\* _scan_directory: a file that passed the filters is counted
CountFile(r, path, size) ==
    [r EXCEPT !.total_size = @ + size, !.file_count = @ + 1,
              !.files = Append(@, path)]

\* CountMatch that does not record the path
CountMatchSkipsPath(r, path, size) ==
    [r EXCEPT !.total_size = @ + size, !.file_count = @ + 1]

\* _depth_search: a stale junk directory is counted as one unit
CountMatch(r, path, size) ==
    [r EXCEPT !.total_size = @ + size, !.file_count = @ + 1,
              !.files = Append(@, path)]

\* _depth_search: is the directory a stale junk directory
is_stale(mtime) == (Now - mtime) > threshold_seconds

\* _scan_item: the except clauses around the call of _scan_directory
item_error(kind) ==
    IF kind = "PermissionError" THEN "permission denied, administrator required"
    ELSE kind

\* _scan_recycle_bin
scan_recycle_bin(id, name, answer) ==
    IF answer.raises
    THEN [ScanResult(id, name) EXCEPT !.error = "Exception"]
    ELSE IF answer.ret = 0
         THEN [ScanResult(id, name) EXCEPT !.total_size = answer.i64Size,
                                           !.file_count = answer.i64NumItems]
         ELSE [ScanResult(id, name) EXCEPT !.error = "recycle bin unavailable"]

\* scan_all: the drive_path argument of _scan_recycle_bin (None: all drives)
None == <<"None">>

\* recycle_drive_path that never hands None
recycle_drive_path_always(drv) == drv \o <<BS>>

recycle_drive_path(drv) == IF drv = ALL THEN None ELSE drv \o <<BS>>

RECURSIVE get_total_size_of(_, _)
\* get_selected_size that sums every stored result, as get_total_size does
get_total_size_of(res, selected_ids) ==
    LET ks == DOMAIN res
    IN IF ks = {} THEN 0
       ELSE LET k == CHOOSE x \in ks : TRUE
            IN res[k].total_size
               + get_total_size_of([x \in ks \ {k} |-> res[x]], selected_ids)

RECURSIVE get_selected_size(_, _)
\* Scanner.get_selected_size(selected_ids) on the mapping res
get_selected_size(res, selected_ids) ==
    IF selected_ids = <<>> THEN 0
    ELSE (IF Head(selected_ids) \in DOMAIN res
          THEN res[Head(selected_ids)].total_size ELSE 0)
         + get_selected_size(res, Tail(selected_ids))

\* Catches with except PermissionError alone
CatchesPermissionOnly(fn, kind) == kind = "PermissionError"

\* the except (PermissionError, OSError) clauses of the three walkers
Catches(fn, kind) == kind \in {"PermissionError", "OSError"}

(***************************************************************************)
(* The walkers' call stack.  A frame is one activation of _scan_directory, *)
(* _depth_search or _get_dir_size_for_scan: the path it was called with,   *)
(* the directory it lists, the position of its loop, and its arguments.    *)
(* A walker state W is [stack, cur, exc, hit]: hit says an access failed.  *)
(***************************************************************************)
Frame(fn, path, node, pattern, depth) ==
    [fn |-> fn, path |-> path, node |-> node, idx |-> 1,
     pattern |-> pattern, depth |-> depth, total |-> 0]

Top(stk)  == stk[Len(stk)]
Pop(stk)  == SubSeq(stk, 1, Len(stk) - 1)
SetTop(stk, f) == [stk EXCEPT ![Len(stk)] = f]

\* the top frame returns: _get_dir_size_for_scan hands its total to its caller
Return(W) ==
    LET f    == Top(W.stack)
        rest == Pop(W.stack)
    IN IF f.fn = "dir_size"
       THEN IF Top(rest).fn = "dir_size"
            THEN [W EXCEPT !.stack = SetTop(rest, [Top(rest) EXCEPT !.total = @ + f.total])]
            ELSE [W EXCEPT !.stack = rest, !.cur = CountMatch(W.cur, f.path, f.total)]
       ELSE [W EXCEPT !.stack = rest]

\* Throw with one handler around the whole listing: the frame is left
ThrowAbortsListing(W, kind) ==
    IF W.stack = <<>> THEN [W EXCEPT !.exc = kind, !.hit = TRUE]
    ELSE [W EXCEPT !.stack = Pop(@), !.hit = TRUE]

RECURSIVE Throw(_, _)
\* an exception raised while the top frame handles an entry: the frame's
\* handler skips the entry, or the frame is left and its caller's handler asked
Throw(W, kind) ==
    IF W.stack = <<>> THEN [W EXCEPT !.exc = kind, !.hit = TRUE]
    ELSE IF Catches(Top(W.stack).fn, kind) THEN [W EXCEPT !.hit = TRUE]
    ELSE Throw([W EXCEPT !.stack = Pop(W.stack)], kind)

\* Enter without the test of the depth
EnterUnbounded(W, fn, path, node, pattern, depth) ==
    LET W1 == [W EXCEPT !.stack = Append(@, Frame(fn, path, node, pattern, depth))]
    IN IF ListFault(node) = "none" THEN W1
       ELSE IF Catches(fn, ListFault(node))
            THEN [Return(W1) EXCEPT !.hit = TRUE]
            ELSE Throw([W1 EXCEPT !.stack = Pop(@)], ListFault(node))

\* a call of a walker: _depth_search returns at once beyond max_depth (the
\* flag is false here, the caller has just tested it); a listing that cannot
\* be opened ends the call in its own handler
Enter(W, fn, path, node, pattern, depth) ==
    IF fn = "depth_search" /\ depth > max_depth THEN W
    ELSE LET W1 == [W EXCEPT !.stack = Append(@, Frame(fn, path, node, pattern, depth))]
         IN IF ListFault(node) = "none" THEN W1
            ELSE IF Catches(fn, ListFault(node))
                 THEN [Return(W1) EXCEPT !.hit = TRUE]
                 ELSE Throw([W1 EXCEPT !.stack = Pop(@)], ListFault(node))

Advance(W) == [W EXCEPT !.stack = SetTop(@, [Top(@) EXCEPT !.idx = @ + 1])]

CurRule == rules[index]

\* _scan_directory: one entry of the listing
visit_scan_directory(W) ==
    LET f  == Top(W.stack)
        e  == scandir[f.node][f.idx]
        ep == join(f.path, FS[e].name)
        W1 == Advance(W)
    IN IF FS[e].kind = "file"
       THEN IF ~extension_ok(ep, CurRule.extensions) THEN W1
            ELSE IF ~pattern_ok(ep, f.pattern) THEN W1
            ELSE IF StatFault(e) # "none" THEN Throw(W1, StatFault(e))
            ELSE [W1 EXCEPT !.cur = CountFile(@, ep, FS[e].size)]
       ELSE IF FS[e].kind = "dir"
       THEN Enter(W1, "scan_directory", ep, e, sub_pattern(ep, f.pattern), 0)
       ELSE W1

\* _depth_search: one entry of the listing
visit_depth_search(W) ==
    LET f  == Top(W.stack)
        e  == scandir[f.node][f.idx]
        ep == join(f.path, FS[e].name)
        W1 == Advance(W)
        name_lower == lower(FS[e].name)
        descend ==
            IF name_lower \in skip_dirs \/ startswith(FS[e].name, <<".">>) THEN W1
            ELSE Enter(W1, "depth_search", ep, e, <<>>, f.depth + 1)
    IN IF FS[e].kind # "dir" THEN W1
       ELSE IF name_lower \in DEVELOPER_CLEAN_RULES
       THEN IF StatFault(e) # "none" THEN Throw(W1, StatFault(e))
            ELSE IF is_stale(FS[e].mtime)
                 THEN Enter(W1, "dir_size", ep, e, <<>>, 0)
                 ELSE descend
       ELSE descend

\* visit_dir_size that does not recurse into subdirectories
visit_dir_size_flat(W) ==
    LET f  == Top(W.stack)
        e  == scandir[f.node][f.idx]
        W1 == Advance(W)
    IN IF FS[e].kind = "file"
       THEN IF StatFault(e) # "none" THEN Throw(W1, StatFault(e))
            ELSE [W1 EXCEPT !.stack = SetTop(@, [Top(@) EXCEPT !.total = @ + FS[e].size])]
       ELSE W1

\* _get_dir_size_for_scan: one entry of the listing
visit_dir_size(W) ==
    LET f  == Top(W.stack)
        e  == scandir[f.node][f.idx]
        ep == join(f.path, FS[e].name)
        W1 == Advance(W)
    IN IF FS[e].kind = "file"
       THEN IF StatFault(e) # "none" THEN Throw(W1, StatFault(e))
            ELSE [W1 EXCEPT !.stack = SetTop(@, [Top(@) EXCEPT !.total = @ + FS[e].size])]
       ELSE IF FS[e].kind = "dir"
       THEN Enter(W1, "dir_size", ep, e, <<>>, 0)
       ELSE W1

(***************************************************************************)
(* The state machine.                                                      *)
(***************************************************************************)
EmptyMap == [k \in {} |-> NoResult]

W0 == [stack |-> stack, cur |-> cur, exc |-> exc, hit |-> FALSE]

\* the walker state W becomes the state of the scanning thread
Apply(W) ==
    /\ stack' = W.stack
    /\ cur' = W.cur
    /\ exc' = W.exc
    /\ faulted' = IF W.hit THEN faulted \cup {index} ELSE faulted

\* no scan_all has returned yet, or cancel() ran during the last one
NoReturn == [clean |-> FALSE, results |-> EmptyMap, queries |-> <<>>]

\* get_selected_size has not been called since the last scan_all
NoCall == [called |-> FALSE, selected_ids |-> <<>>, value |-> 0]

\* Scanner(progress_callback, drive): the state after construction
Init ==
    /\ drive \in {normalize_drive(d) : d \in DriveArgs}
    /\ progress_callback \in BOOLEAN
    /\ psutil_ok \in BOOLEAN
    /\ (drive # ALL => psutil_ok)
    /\ faults \in FaultScenarios
    /\ (~progress_callback => faults = [stat |-> {}, list |-> {}])
    /\ rules \in RuleLists
    /\ results = EmptyMap
    /\ cancelled = FALSE
    /\ pc = "idle"
    /\ index = 0
    /\ cur = NoResult
    /\ ti = 0
    /\ target_paths = <<>>
    /\ pi = 0
    /\ drives = <<>>
    /\ di = 0
    /\ stack = <<>>
    /\ exc = "none"
    /\ run = 0
    /\ cancel_requested = FALSE
    /\ faulted = {}
    /\ discarded = {}
    /\ notified = <<>>
    /\ queries = <<>>
    /\ returned = NoReturn
    /\ selected = NoCall

env == <<drive, progress_callback, psutil_ok, faults, rules>>
kept == <<env, discarded, notified, queries, returned, selected>>
item_locals == <<ti, target_paths, pi>>
dev_locals == <<drives, di>>
walk == <<stack, exc>>

\* cancel(), from any thread at any time
Cancel ==
    /\ cancelled' = TRUE
    /\ cancel_requested' = (cancel_requested \/ pc \notin {"idle", "raised"})
    /\ UNCHANGED <<kept, results, pc, index, cur, item_locals, dev_locals, walk, run, faulted>>

\* a caller enters scan_all
ScanAll ==
    /\ pc = "idle"
    /\ run < MaxRuns
    /\ pc' = "entered"
    /\ run' = run + 1
    /\ cancel_requested' = FALSE
    /\ faulted' = {}
    /\ notified' = <<>>
    /\ queries' = <<>>
    /\ selected' = NoCall
    /\ UNCHANGED <<env, discarded, returned, results, cancelled, index, cur,
                   item_locals, dev_locals, walk>>

\* ResetFlag that leaves the flag as it is
ResetFlagOmitted ==
    /\ pc = "entered"
    /\ cancelled' = cancelled
    /\ pc' = "clear"
    /\ UNCHANGED <<kept, results, index, cur, item_locals, dev_locals, walk, run,
                   cancel_requested, faulted>>

\* scan_all: self._cancelled = False
ResetFlag ==
    /\ pc = "entered"
    /\ cancelled' = FALSE
    /\ pc' = "clear"
    /\ UNCHANGED <<kept, results, index, cur, item_locals, dev_locals, walk, run,
                   cancel_requested, faulted>>

\* ClearResults that keeps the entries
ClearResultsKeeps ==
    /\ pc = "clear"
    /\ results' = results
    /\ discarded' = DOMAIN results
    /\ index' = 1
    /\ pc' = "loop"
    /\ UNCHANGED <<env, cancelled, cur, item_locals, dev_locals, walk, run,
                   cancel_requested, faulted, notified, queries, returned, selected>>

\* scan_all: self.results.clear(), and the loop starts at the first rule
ClearResults ==
    /\ pc = "clear"
    /\ results' = EmptyMap
    /\ discarded' = DOMAIN results
    /\ index' = 1
    /\ pc' = "loop"
    /\ UNCHANGED <<env, cancelled, cur, item_locals, dev_locals, walk, run,
                   cancel_requested, faulted, notified, queries, returned, selected>>

\* LoopCheck without the test of the flag
LoopCheckIgnoresFlag ==
    /\ pc = "loop"
    /\ pc' = IF index > Len(rules) THEN "final" ELSE "dispatch"
    /\ notified' = IF index <= Len(rules) /\ progress_callback
                   THEN Append(notified, <<CurRule.name,
                                           progress_percent(index - 1, Len(rules))>>)
                   ELSE notified
    /\ UNCHANGED <<env, discarded, queries, returned, selected, results, cancelled, index,
                   cur, item_locals, dev_locals, walk, run, cancel_requested, faulted>>

\* scan_all: the top of the per-rule loop: the test of the flag and, for a
\* rule that passes it, the call of progress_callback
LoopCheck ==
    /\ pc = "loop"
    /\ pc' = IF index > Len(rules) \/ cancelled THEN "final" ELSE "dispatch"
    /\ notified' = IF index <= Len(rules) /\ ~cancelled /\ progress_callback
                   THEN Append(notified, <<CurRule.name,
                                           progress_percent(index - 1, Len(rules))>>)
                   ELSE notified
    /\ UNCHANGED <<env, discarded, queries, returned, selected, results, cancelled, index,
                   cur, item_locals, dev_locals, walk, run, cancel_requested, faulted>>

\* scan_all: the recycle-bin rule, one platform call
DispatchRecycleBin ==
    /\ pc = "dispatch"
    /\ CurRule.special = "recycle_bin"
    /\ \E answer \in RecycleAnswers :
          /\ cur' = scan_recycle_bin(CurRule.id, CurRule.name, answer)
          /\ queries' = Append(queries, [drive_path |-> recycle_drive_path(drive),
                                         answer |-> answer])
          /\ faulted' = IF answer.raises \/ answer.ret # 0
                        THEN faulted \cup {index} ELSE faulted
    /\ pc' = "store"
    /\ UNCHANGED <<env, discarded, notified, returned, selected, results, cancelled, index,
                   item_locals, dev_locals, walk, run, cancel_requested>>

\* scan_all: _scan_developer_junk up to its loop over the drives
DispatchDeveloperJunk ==
    /\ pc = "dispatch"
    /\ CurRule.special = "developer_mode"
    /\ cur' = ScanResult(CurRule.id, CurRule.name)
    /\ drives' = IF drive = ALL THEN get_available_drives ELSE <<drive>>
    /\ di' = 1
    /\ faulted' = IF drive = ALL /\ ~psutil_ok THEN faulted \cup {index} ELSE faulted
    /\ pc' = "dev_drive"
    /\ UNCHANGED <<kept, results, cancelled, index, item_locals, walk, run, cancel_requested>>

\* scan_all: _scan_item up to its loop over the path templates
DispatchItem ==
    /\ pc = "dispatch"
    /\ CurRule.special \notin {"recycle_bin", "developer_mode"}
    /\ cur' = ScanResult(CurRule.id, CurRule.name)
    /\ ti' = 1
    /\ pc' = "item_path"
    /\ UNCHANGED <<kept, results, cancelled, index, target_paths, pi, dev_locals, walk,
                   run, cancel_requested, faulted>>

\* _scan_item: the top of the loop over the path templates
ItemPath ==
    /\ pc = "item_path"
    /\ IF ti > Len(CurRule.paths) \/ cancelled
       THEN /\ pc' = "store"
            /\ UNCHANGED <<target_paths, pi, faulted>>
       ELSE /\ target_paths' = TargetPaths(CurRule.paths[ti], drive, get_available_drives)
            /\ pi' = 1
            /\ faulted' = IF /\ drive = ALL
                             /\ ~psutil_ok
                             /\ startswith(lower(CurRule.paths[ti]), <<"c",":">>)
                          THEN faulted \cup {index} ELSE faulted
            /\ pc' = "item_target"
    /\ UNCHANGED <<kept, results, cancelled, index, cur, ti, dev_locals, walk, run,
                   cancel_requested>>

\* _scan_item: the loop over target_paths, up to the call of _scan_directory
ItemTarget ==
    /\ pc = "item_target"
    /\ IF pi > Len(target_paths)
       THEN /\ ti' = ti + 1
            /\ pc' = "item_path"
            /\ UNCHANGED <<pi, cur, walk, faulted>>
       ELSE IF ~exists(target_paths[pi])
       THEN /\ pi' = pi + 1
            /\ UNCHANGED <<pc, ti, cur, walk, faulted>>
       ELSE /\ Apply(Enter(W0, "scan_directory", target_paths[pi],
                           Resolve(target_paths[pi]), CurRule.pattern, 0))
            /\ pc' = "walk"
            /\ UNCHANGED <<ti, pi>>
    /\ UNCHANGED <<kept, results, cancelled, index, target_paths, dev_locals, run,
                   cancel_requested>>

\* _scan_item: _scan_directory has returned, or raised into the except clauses
ItemReturn ==
    /\ pc = "walk"
    /\ stack = <<>>
    /\ CurRule.special \notin {"recycle_bin", "developer_mode"}
    /\ cur' = IF exc = "none" THEN cur ELSE [cur EXCEPT !.error = item_error(exc)]
    /\ exc' = "none"
    /\ pi' = pi + 1
    /\ pc' = "item_target"
    /\ UNCHANGED <<kept, results, cancelled, index, ti, target_paths, dev_locals, stack,
                   run, cancel_requested, faulted>>

\* _scan_developer_junk: the loop over the drives, up to the call of _depth_search
DevDrive ==
    /\ pc = "dev_drive"
    /\ IF di > Len(drives)
       THEN /\ pc' = "store"
            /\ UNCHANGED <<di, cur, walk, faulted>>
       ELSE IF ~exists(drives[di] \o <<BS>>)
       THEN /\ di' = di + 1
            /\ UNCHANGED <<pc, cur, walk, faulted>>
       ELSE /\ Apply(IF cancelled THEN W0
                     ELSE Enter(W0, "depth_search", drives[di] \o <<BS>>,
                                Resolve(drives[di] \o <<BS>>), <<>>, 0))
            /\ pc' = "walk"
            /\ UNCHANGED di
    /\ UNCHANGED <<kept, results, cancelled, index, item_locals, drives, run,
                   cancel_requested>>

\* _scan_developer_junk: _depth_search has returned (or raised: nothing
\* catches it here, nor in scan_all); break if cancelled
DevReturn ==
    /\ pc = "walk"
    /\ stack = <<>>
    /\ CurRule.special = "developer_mode"
    /\ IF exc # "none"
       THEN pc' = "raised" /\ UNCHANGED di
       ELSE IF cancelled
       THEN pc' = "store" /\ UNCHANGED di
       ELSE pc' = "dev_drive" /\ di' = di + 1
    /\ UNCHANGED <<kept, results, cancelled, index, cur, item_locals, drives, walk, run,
                   cancel_requested, faulted>>

InWalk(fn) == pc = "walk" /\ stack # <<>> /\ Top(stack).fn = fn

AtEnd == Top(stack).idx > Len(scandir[Top(stack).node])

walk_frame == <<kept, results, cancelled, pc, index, item_locals, dev_locals, run,
                cancel_requested>>

\* _scan_directory: the flag is false and an entry is left: handle the entry
ScanDirectoryVisit ==
    /\ InWalk("scan_directory")
    /\ ~AtEnd /\ ~cancelled
    /\ Apply(visit_scan_directory(W0))
    /\ UNCHANGED walk_frame

\* _scan_directory: the listing is exhausted or the flag is set: return
ScanDirectoryReturn ==
    /\ InWalk("scan_directory")
    /\ AtEnd \/ cancelled
    /\ Apply(Return(W0))
    /\ UNCHANGED walk_frame

\* _depth_search: the flag is false and an entry is left: handle the entry
DepthSearchVisit ==
    /\ InWalk("depth_search")
    /\ ~AtEnd /\ ~cancelled
    /\ Apply(visit_depth_search(W0))
    /\ UNCHANGED walk_frame

\* _depth_search: the listing is exhausted or the flag is set: return
DepthSearchReturn ==
    /\ InWalk("depth_search")
    /\ AtEnd \/ cancelled
    /\ Apply(Return(W0))
    /\ UNCHANGED walk_frame

\* _get_dir_size_for_scan: an entry is left: handle it (the flag is not read)
DirSizeVisit ==
    /\ InWalk("dir_size")
    /\ ~AtEnd
    /\ Apply(visit_dir_size(W0))
    /\ UNCHANGED walk_frame

\* _get_dir_size_for_scan: the listing is exhausted: return total
DirSizeReturn ==
    /\ InWalk("dir_size")
    /\ AtEnd
    /\ Apply(Return(W0))
    /\ UNCHANGED walk_frame

\* Store that drops the result of a cancelled rule
StoreUnlessCancelled ==
    /\ pc = "store"
    /\ results' = IF cancelled THEN results
                  ELSE [k \in DOMAIN results \cup {cur.item_id} |->
                           IF k = cur.item_id THEN cur ELSE results[k]]
    /\ index' = index + 1
    /\ cur' = NoResult
    /\ ti' = 0 /\ target_paths' = <<>> /\ pi' = 0
    /\ drives' = <<>> /\ di' = 0
    /\ pc' = "loop"
    /\ UNCHANGED <<kept, cancelled, walk, run, cancel_requested, faulted>>

\* scan_all: self.results[item_id] = result, and the loop goes on
Store ==
    /\ pc = "store"
    /\ results' = [k \in DOMAIN results \cup {cur.item_id} |->
                      IF k = cur.item_id THEN cur ELSE results[k]]
    /\ index' = index + 1
    /\ cur' = NoResult
    /\ ti' = 0 /\ target_paths' = <<>> /\ pi' = 0
    /\ drives' = <<>> /\ di' = 0
    /\ pc' = "loop"
    /\ UNCHANGED <<kept, cancelled, walk, run, cancel_requested, faulted>>

\* scan_all: the last call of progress_callback, and return self.results
Finish ==
    /\ pc = "final"
    /\ notified' = IF progress_callback THEN Append(notified, <<"scan complete", 100>>)
                   ELSE notified
    /\ returned' = IF cancel_requested THEN NoReturn
                   ELSE [clean |-> TRUE, results |-> results, queries |-> queries]
    /\ pc' = "idle"
    /\ index' = 0
    /\ UNCHANGED <<env, discarded, queries, selected, results, cancelled, cur, item_locals,
                   dev_locals, walk, run, cancel_requested, faulted>>

\* a caller asks for get_selected_size(selected_ids) after scan_all has returned
GetSelectedSize ==
    /\ pc = "idle"
    /\ \E selected_ids \in SelectedIdLists :
          selected' = [called |-> TRUE, selected_ids |-> selected_ids,
                       value |-> get_selected_size(results, selected_ids)]
    /\ UNCHANGED <<env, discarded, notified, queries, returned, results, cancelled, pc,
                   index, cur, item_locals, dev_locals, walk, run, cancel_requested,
                   faulted>>

Next ==
    \/ Cancel
    \/ ScanAll
    \/ ResetFlag
    \/ ClearResults
    \/ LoopCheck
    \/ DispatchRecycleBin
    \/ DispatchDeveloperJunk
    \/ DispatchItem
    \/ ItemPath
    \/ ItemTarget
    \/ ItemReturn
    \/ DevDrive
    \/ DevReturn
    \/ ScanDirectoryVisit
    \/ ScanDirectoryReturn
    \/ DepthSearchVisit
    \/ DepthSearchReturn
    \/ DirSizeVisit
    \/ DirSizeReturn
    \/ Store
    \/ Finish
    \/ GetSelectedSize

Spec == Init /\ [][Next]_vars

(***************************************************************************)
(* The progress computation on its own: sessions with a callback and a     *)
(* rule list of 1..MaxRules rules, scanned without cancel().               *)
(***************************************************************************)
InitLong ==
    /\ drive = normalize_drive(<<"c",":",BS>>)
    /\ progress_callback = TRUE
    /\ psutil_ok = TRUE
    /\ faults = [stat |-> {}, list |-> {}]
    /\ rules \in LongRuleLists
    /\ results = EmptyMap
    /\ cancelled = FALSE
    /\ pc = "idle"
    /\ index = 0
    /\ cur = NoResult
    /\ ti = 0
    /\ target_paths = <<>>
    /\ pi = 0
    /\ drives = <<>>
    /\ di = 0
    /\ stack = <<>>
    /\ exc = "none"
    /\ run = 0
    /\ cancel_requested = FALSE
    /\ faulted = {}
    /\ discarded = {}
    /\ notified = <<>>
    /\ queries = <<>>
    /\ returned = NoReturn
    /\ selected = NoCall

NextLong ==
    \/ ScanAll
    \/ ResetFlag
    \/ ClearResults
    \/ LoopCheck
    \/ DispatchItem
    \/ ItemPath
    \/ Store
    \/ Finish

SpecLong == InitLong /\ [][NextLong]_vars

(***************************************************************************)
(* Vocabulary of the properties.                                           *)
(***************************************************************************)
Keys(k) == {rules[i].id : i \in 1..k}

IsPrefix(s, t) == Len(s) <= Len(t) /\ SubSeq(t, 1, Len(s)) = s

InRule == index \in 1..Len(rules) /\ pc \in {"dispatch", "item_path", "item_target",
                                            "walk", "dev_drive", "store"}

GenericActive ==
    /\ InRule /\ pc # "dispatch"
    /\ CurRule.special \notin {"recycle_bin", "developer_mode"}

DevActive == InRule /\ pc # "dispatch" /\ CurRule.special = "developer_mode"

JunkNamed(n) == FS[n].kind = "dir" /\ lower(FS[n].name) \in DEVELOPER_CLEAN_RULES

StaleJunk(n)  == JunkNamed(n) /\ Now - FS[n].mtime > threshold_seconds
RecentJunk(n) == JunkNamed(n) /\ Now - FS[n].mtime <= threshold_seconds

RECURSIVE ReadableSize(_)
RECURSIVE ReadableSizeFrom(_, _)
\* the sizes of the regular files below directory n that can be read: a file
\* whose stat fails, and a directory that cannot be listed, count as zero
ReadableSize(n) == IF ListFault(n) # "none" THEN 0 ELSE ReadableSizeFrom(n, 1)
ReadableSizeFrom(n, j) ==
    IF j > Len(scandir[n]) THEN 0
    ELSE LET e == scandir[n][j]
         IN (IF FS[e].kind = "file"
             THEN (IF StatFault(e) = "none" THEN FS[e].size ELSE 0)
             ELSE IF FS[e].kind = "dir" THEN ReadableSize(e) ELSE 0)
            + ReadableSizeFrom(n, j + 1)

RECURSIVE SumSizes(_)
SumSizes(paths) ==
    IF paths = <<>> THEN 0
    ELSE ReadableSize(Resolve(Head(paths))) + SumSizes(Tail(paths))

\* the extension equals an allowlist entry, ignoring letter case on both sides
extension_matches_ignoring_case(path, extensions) ==
    extensions = <<>> \/ \E i \in DOMAIN extensions :
                            lower(suffix(path)) = lower(extensions[i])

RECURSIVE RefDir(_, _, _, _)
RECURSIVE RefEntries(_, _, _, _, _)
\* the files a walk of directory n counts when it tests every file's full path
\* against the rule's pattern at every level (ci: the extension test ignores
\* the case of the allowlist too), in the order of the listing
RefDir(path, n, rule, ci) ==
    IF ListFault(n) # "none" THEN <<>> ELSE RefEntries(path, n, 1, rule, ci)
RefEntries(path, n, j, rule, ci) ==
    IF j > Len(scandir[n]) THEN <<>>
    ELSE LET e  == scandir[n][j]
             ep == join(path, FS[e].name)
             ext_passes == IF ci THEN extension_matches_ignoring_case(ep, rule.extensions)
                           ELSE extension_ok(ep, rule.extensions)
             pat_passes == rule.pattern = <<>>
                           \/ contains(lower(ep), lower(rule.pattern))
         IN (IF FS[e].kind = "file"
             THEN (IF ext_passes /\ pat_passes /\ StatFault(e) = "none"
                   THEN <<ep>> ELSE <<>>)
             ELSE IF FS[e].kind = "dir" THEN RefDir(ep, e, rule, ci) ELSE <<>>)
            \o RefEntries(path, n, j + 1, rule, ci)

RECURSIVE RefTargets(_, _, _, _)
RefTargets(tps, j, rule, ci) ==
    IF j > Len(tps) THEN <<>>
    ELSE (IF exists(tps[j]) THEN RefDir(tps[j], Resolve(tps[j]), rule, ci) ELSE <<>>)
         \o RefTargets(tps, j + 1, rule, ci)

RECURSIVE RefTemplates(_, _, _)
RefTemplates(i, rule, ci) ==
    IF i > Len(rule.paths) THEN <<>>
    ELSE RefTargets(TargetPaths(rule.paths[i], drive, get_available_drives), 1, rule, ci)
         \o RefTemplates(i + 1, rule, ci)

\* the matched paths of a complete scan of a generic rule, by the reference walk
RefItem(rule, ci) == RefTemplates(1, rule, ci)

IsLetter(c) == \E i \in 1..26 : c = UpperLetters[i] \/ c = LowerLetters[i]

\* the template begins with a drive letter and a colon
DriveAnchored(t) == Len(t) >= 2 /\ IsLetter(t[1]) /\ t[2] = ":"

(***************************************************************************)
(* C1. A cancel() that runs while scan_all is in flight (anywhere between  *)
(* its entry and its return) ends the run early: after it, scan_all lets   *)
(* no further rule pass the top of its loop.                               *)
(* The code refutes it: a cancel() between the entry of scan_all and its   *)
(* first statement is erased by self._cancelled = False.                   *)
(***************************************************************************)
C1_CancelInFlightStopsDispatch ==
    [][cancel_requested => ~(pc = "loop" /\ pc' = "dispatch")]_vars

(***************************************************************************)
(* C2. The keys of the result mapping are always the ids of a prefix of    *)
(* the rule list (inside the loop: of the rules already stored), and when  *)
(* the top of the loop sees the flag set, the loop is left: no rule is     *)
(* dispatched and no entry is added until scan_all returns.                *)
(***************************************************************************)
C2_KeysArePrefix ==
    /\ \E k \in 0..Len(rules) : DOMAIN results = Keys(k)
    /\ (InRule \/ pc \in {"loop", "final"}) => DOMAIN results = Keys(index - 1)

\* C2: the keys always form a prefix, and a loop top that sees the flag adds nothing
C2_ResultKeysFormPrefix ==
    /\ []C2_KeysArePrefix
    /\ [][(pc = "loop" /\ cancelled) => (pc' \in {"loop", "final"} /\ results' = results)]_vars
    /\ [][pc = "final" => results' = results]_vars

C2_Witness ==
    /\ pc = "final" /\ cancelled
    /\ index > 1 /\ index <= Len(rules)
    /\ DOMAIN results = Keys(index - 1)

(***************************************************************************)
(* C3. Once the flag is set, no walker handles a further directory entry:  *)
(* neither the generic walk, nor the developer-junk descent, nor the size  *)
(* computation of a matched junk directory.                                *)
(* The code refutes it: _get_dir_size_for_scan never reads the flag.       *)
(***************************************************************************)
C3_NoEntryVisitAfterCancel ==
    [][cancelled => ~(ScanDirectoryVisit \/ DepthSearchVisit \/ DirSizeVisit)]_vars

(***************************************************************************)
(* C4. No failure of a file-system access, of the recycle-bin query or of  *)
(* the drive enumeration leaves scan_all as an exception; the rule during  *)
(* which it happened is stored, and a run that is not cancelled stores     *)
(* every rule.                                                             *)
(***************************************************************************)
C4_NoErrorIsFatal ==
    /\ pc # "raised"
    /\ \A i \in faulted : (pc \in {"loop", "final"} \/ InRule) /\ i < index
                             => rules[i].id \in DOMAIN results
    /\ (pc = "final" /\ ~cancelled) => DOMAIN results = Keys(Len(rules))

C4_Witness ==
    /\ pc = "final" /\ ~cancelled
    /\ \E i \in faulted : i < Len(rules) /\ rules[i].special = "developer_mode"
    /\ \E i \in faulted : rules[i].special = "none"
    /\ DOMAIN results = Keys(Len(rules))

(***************************************************************************)
(* C5. A directory with a junk name whose age does not exceed the          *)
(* threshold is skipped entirely: the descent never lists it, and nothing  *)
(* inside it is matched.                                                   *)
(* The code refutes it: such a directory falls through to the recursion    *)
(* unless its name is in skip_dirs or starts with a dot.                   *)
(***************************************************************************)
C5_RecentJunkNotDescended ==
    /\ \A i \in DOMAIN stack :
          stack[i].fn = "depth_search" => ~RecentJunk(stack[i].node)
    /\ DevActive =>
          \A i \in DOMAIN cur.files :
             ~\E a \in Nodes : RecentJunk(a) /\ IsUnder(Resolve(cur.files[i]), a)

(***************************************************************************)
(* C6. A stale junk directory the descent reaches (and whose modification  *)
(* time can be read) is one unit: its path is matched once, file_count     *)
(* counts it once, total_size holds the sizes of the files of its whole    *)
(* subtree (those that can be read: the size computation skips an entry    *)
(* whose access fails), and the descent does not enter it, so no matched   *)
(* path lies below another.                                                *)
(***************************************************************************)
C6_OneUnit(r) ==
    /\ r.file_count = Len(r.files)
    /\ \A i \in DOMAIN r.files : Resolve(r.files[i]) # 0 /\ StaleJunk(Resolve(r.files[i]))
    /\ \A i, j \in DOMAIN r.files :
          i # j => /\ Resolve(r.files[i]) # Resolve(r.files[j])
                   /\ ~IsUnder(Resolve(r.files[i]), Resolve(r.files[j]))
    /\ r.total_size = SumSizes(r.files)

\* C6: the result under construction and the stored one count each stale junk
\* directory once, with its readable subtree size, and the descent stays outside
C6_StaleJunkIsOneUnit ==
    /\ DevActive =>
          /\ C6_OneUnit(cur)
          /\ \A i \in DOMAIN stack :
                stack[i].fn = "depth_search" =>
                   /\ ~StaleJunk(stack[i].node)
                   /\ \A j \in 1..(stack[i].idx - 1) :
                         LET e == scandir[stack[i].node][j]
                         IN (StaleJunk(e) /\ StatFault(e) = "none") =>
                               \/ \E m \in DOMAIN cur.files : Resolve(cur.files[m]) = e
                               \/ \E m \in DOMAIN stack :
                                     m > i /\ stack[m].fn = "dir_size" /\ stack[m].node = e
    /\ pc \in {"loop", "final", "idle"} =>
          \A k \in DOMAIN results :
             (\E i \in DOMAIN rules : rules[i].id = k /\ rules[i].special = "developer_mode")
                => C6_OneUnit(results[k])

C6_Witness ==
    /\ DevActive /\ pc = "store"
    /\ \E i \in DOMAIN cur.files : Resolve(cur.files[i]) = 14
    /\ cur.file_count = 2
    /\ cur.total_size = FS[15].size + FS[17].size + FS[20].size

(***************************************************************************)
(* C7. A template that begins with a drive letter and a colon, whatever    *)
(* the letter, resolves to the selected drive's letter plus the rest of    *)
(* the template (one path per available drive under ALL); any other        *)
(* template resolves to itself.                                            *)
(* The code refutes it: only templates that begin with c: are rewritten.   *)
(***************************************************************************)
C7_DriveLetterResolution ==
    pc = "item_target" =>
       LET t == CurRule.paths[ti]
       IN target_paths =
             IF ~DriveAnchored(t) THEN <<t>>
             ELSE IF drive = ALL
                  THEN [i \in 1..Len(get_available_drives) |->
                           get_available_drives[i] \o slice2(t)]
                  ELSE <<drive \o slice2(t)>>

(***************************************************************************)
(* C8. With a non-empty allowlist, a file passes the extension filter      *)
(* exactly when its extension equals an allowlist entry ignoring case, on  *)
(* both sides: a complete scan of a generic rule counts exactly the files  *)
(* of the reference walk whose extension test lower-cases the entry too.   *)
(* The code refutes it: the allowlist entry is compared as written.        *)
(***************************************************************************)
C8_ExtensionFilterIgnoresCase ==
    (GenericActive /\ pc = "store" /\ ~cancelled /\ CurRule.extensions # <<>>)
       => cur.files = RefItem(CurRule, TRUE)

(***************************************************************************)
(* C9. The generic walk, which stops handing the pattern down below a      *)
(* directory whose path contains it, counts the same files as the walk     *)
(* that tests every file's full path at every level: a file is counted     *)
(* iff it passes the extension filter and its path contains the pattern    *)
(* (each when configured).  During the scan the matched paths are a        *)
(* prefix of the reference walk's, a complete scan has all of them.        *)
(***************************************************************************)
C9_SameAsReference(r, rule) ==
    /\ IsPrefix(r.files, RefItem(rule, FALSE))
    /\ r.file_count = Len(r.files)

C10_OnlyThisRunsResults ==
    \A k \in DOMAIN results :
       results[k].run = IF pc \in {"entered", "clear"} THEN run - 1 ELSE run

C10_Witness ==
    /\ run = 2 /\ pc = "idle" /\ cancelled
    /\ \E k \in discarded : k \notin DOMAIN results
    /\ results # EmptyMap

(***************************************************************************)
(* C11. Idempotence: when scan_all has run twice in a row on one session   *)
(* (same rule list, same file system, same clock, the recycle bin giving   *)
(* the same answer) and no cancel() ran during either run, the second run  *)
(* returns the mapping the first returned: the same keys, and for each key *)
(* the same name, total size, file count, matched paths and error.         *)
(***************************************************************************)
SameEntry(a, b) ==
    /\ a.item_id = b.item_id /\ a.item_name = b.item_name
    /\ a.total_size = b.total_size /\ a.file_count = b.file_count
    /\ a.files = b.files /\ a.error = b.error

C11_Precondition ==
    /\ pc = "final" /\ run > 1
    /\ returned.clean /\ ~cancel_requested
    /\ returned.queries = queries

C11_Idempotence ==
    C11_Precondition =>
       /\ DOMAIN results = DOMAIN returned.results
       /\ \A k \in DOMAIN results : SameEntry(results[k], returned.results[k])

C11_Witness ==
    /\ C11_Precondition
    /\ queries # <<>>
    /\ faulted # {}
    /\ \E k \in DOMAIN results : Len(results[k].files) > 1

(***************************************************************************)
(* C12. With a progress callback, the notifications of one scan_all are:   *)
(* for each rule that passed the top of the loop, in the order of the rule *)
(* list, (rule name, floor(100 * index / rule_count)) with index counted   *)
(* from 0, emitted before the rule is scanned and stored; these percents   *)
(* never decrease and stay below 100; and one last notification with       *)
(* percent 100 when scan_all returns, cancelled or not.                    *)
(* The code refutes the percentage: int((index / total_items) * 100) is    *)
(* computed in floating point and is one less than the floor for rule 29   *)
(* of 50.                                                                  *)
(***************************************************************************)
floor_percent(i, n) == (100 * i) \div n

\* the number of rules that have passed the top of the loop in this run
Dispatched == IF InRule THEN index ELSE index - 1

\* the notifications of the rules: names in order, percents ascending below 100
RuleNotifications(log, k) ==
    /\ Len(log) = k
    /\ \A i \in 1..k : log[i][1] = rules[i].name
    /\ \A i, j \in 1..k : i <= j => log[i][2] <= log[j][2] /\ log[j][2] < 100

\* C12 but for the value of the percentages: one notification for each rule
\* in hand or done, the last one with 100 at the return
C12_OrderAndFinal ==
    progress_callback =>
       /\ pc \in {"entered", "clear"} => notified = <<>>
       /\ (InRule \/ pc \in {"loop", "final"}) => RuleNotifications(notified, Dispatched)
       /\ (pc = "idle" /\ run > 0) =>
             /\ notified # <<>>
             /\ notified[Len(notified)] = <<"scan complete", 100>>
             /\ RuleNotifications(SubSeq(notified, 1, Len(notified) - 1),
                                  Cardinality(DOMAIN results))

C12_ProgressNotifications ==
    /\ C12_OrderAndFinal
    /\ progress_callback =>
          \A i \in DOMAIN notified :
             notified[i][2] = IF pc = "idle" /\ i = Len(notified) THEN 100
                              ELSE floor_percent(i - 1, Len(rules))

(***************************************************************************)
(* C13. get_selected_size(ids) is the sum, over the keys of the result     *)
(* mapping, of total_size times the number of times the key occurs in ids: *)
(* an id that is no key adds nothing and raises nothing, and the call      *)
(* leaves the mapping as it is.  get_selected_size([a, missing]) with only *)
(* a present is results[a].total_size.                                     *)
(***************************************************************************)
Occurrences(ids, k) == Cardinality({i \in DOMAIN ids : ids[i] = k})

RECURSIVE SumOverKeys(_, _)
SumOverKeys(ks, ids) ==
    IF ks = {} THEN 0
    ELSE LET k == CHOOSE x \in ks : TRUE
         IN Occurrences(ids, k) * results[k].total_size + SumOverKeys(ks \ {k}, ids)

C13_ValueIsSumOfPresent ==
    selected.called =>
       LET ids == selected.selected_ids
       IN /\ selected.value = SumOverKeys(DOMAIN results, ids)
          /\ (Len(ids) = 2 /\ ids[1] \in DOMAIN results /\ ids[2] \notin DOMAIN results)
                => selected.value = results[ids[1]].total_size

C13_SelectedSize ==
    /\ []C13_ValueIsSumOfPresent
    /\ [][selected' # selected /\ selected'.called => results' = results]_vars

C13_Witness ==
    /\ selected.called
    /\ Len(selected.selected_ids) = 2
    /\ selected.selected_ids[1] \in DOMAIN results
    /\ selected.selected_ids[2] \notin DOMAIN results
    /\ selected.value > 0
    /\ Cardinality(DOMAIN results) > 1

(***************************************************************************)
(* C14. The recycle-bin rule asks the platform once, with None when the    *)
(* drive selector is ALL and with the drive's root path (letter, colon,    *)
(* backslash) otherwise; a status other than 0, or an exception, sets the  *)
(* error and leaves size and count 0; status 0 gives the reported size and *)
(* count and no error.                                                     *)
(***************************************************************************)
RecycleRulesUpTo(k) == {i \in 1..k : rules[i].special = "recycle_bin"}

C14_RecycleBinRule ==
    (InRule /\ pc = "store" /\ CurRule.special = "recycle_bin") =>
       /\ Len(queries) = Cardinality(RecycleRulesUpTo(index))
       /\ LET q == queries[Len(queries)]
          IN /\ q.drive_path = IF drive = ALL THEN None ELSE <<drive[1], ":", BS>>
             /\ IF q.answer.raises \/ q.answer.ret # 0
                THEN cur.error # "None" /\ cur.total_size = 0 /\ cur.file_count = 0
                ELSE /\ cur.error = "None"
                     /\ cur.total_size = q.answer.i64Size
                     /\ cur.file_count = q.answer.i64NumItems

C14_Witness ==
    /\ InRule /\ pc = "store" /\ CurRule.special = "recycle_bin"
    /\ drive = ALL
    /\ Len(queries) = 1 /\ queries[1].drive_path = None
    /\ queries[1].answer.ret # 0
    /\ cur.error # "None"

(***************************************************************************)
(* C15. When the listing of a resolved top-level path of a generic rule    *)
(* fails, the category's error is set: to the permission message for a     *)
(* permission error, to the exception's text otherwise.                    *)
(* The code refutes it: _scan_directory catches the failure of its own     *)
(* listing, so the except clauses of _scan_item never run.                 *)
(***************************************************************************)
C15_TopLevelFailureSetsError ==
    (GenericActive /\ pc = "item_target" /\ pi > 1 /\ exists(target_paths[pi - 1])
       /\ ListFault(Resolve(target_paths[pi - 1])) # "none")
       => cur.error = item_error(ListFault(Resolve(target_paths[pi - 1])))

(***************************************************************************)
(* C16. In the generic walk an entry whose access fails (the size read of  *)
(* a file that passed the filters, the listing of a subdirectory) adds     *)
(* nothing to total size, file count and matched paths, and the walk goes  *)
(* on with the next sibling in the same listing; a listing is left only at *)
(* its end or on cancellation.                                             *)
(***************************************************************************)
EntryFails ==
    LET f  == Top(stack)
        e  == scandir[f.node][f.idx]
        ep == join(f.path, FS[e].name)
    IN \/ /\ FS[e].kind = "file"
          /\ extension_ok(ep, CurRule.extensions) /\ pattern_ok(ep, f.pattern)
          /\ StatFault(e) # "none"
       \/ FS[e].kind = "dir" /\ ListFault(e) # "none"

C16_PerEntryErrorIsolation ==
    /\ [][(ScanDirectoryVisit /\ EntryFails) =>
             /\ cur' = cur
             /\ stack' = SetTop(stack, [Top(stack) EXCEPT !.idx = @ + 1])
             /\ exc' = "none" /\ pc' = "walk"]_vars
    /\ [][(InWalk("scan_directory") /\ Len(stack') < Len(stack))
             => (AtEnd \/ cancelled)]_vars

C16_Witness ==
    /\ GenericActive /\ pc = "store" /\ ~cancelled
    /\ StatFault(3) # "none" /\ StatFault(10) # "none" /\ ListFault(5) # "none"
    /\ Len(cur.files) = 2
    /\ Resolve(cur.files[1]) = 4
    /\ Resolve(cur.files[2]) = 11

(***************************************************************************)
(* C17. Within one scan pass the total size and the file count of the      *)
(* category in hand never decrease and its matched paths only grow at the  *)
(* end, by at most one path a step, whatever cancel() and the access       *)
(* failures do; a stored category stays as it is until the next pass       *)
(* clears the mapping.                                                     *)
(***************************************************************************)
C17_MonotoneWithinPass ==
    /\ [][(InRule /\ InRule' /\ index' = index) =>
             /\ cur'.total_size >= cur.total_size
             /\ cur'.file_count >= cur.file_count
             /\ IsPrefix(cur.files, cur'.files)
             /\ Len(cur'.files) <= Len(cur.files) + 1]_vars
    /\ [][pc # "clear" =>
             \A k \in DOMAIN results : k \in DOMAIN results' /\ results'[k] = results[k]]_vars

C17_Witness ==
    /\ GenericActive /\ pc = "store" /\ cancelled
    /\ index \in faulted
    /\ cur.file_count > 1
    /\ results # EmptyMap

(***************************************************************************)
(* C18. The developer-junk descent is bounded at max_depth levels below    *)
(* the drive root (depth 0): it lists no directory more than max_depth     *)
(* levels below the root.  The directories examined for a junk name are    *)
(* the entries of the directories it lists, so they reach one level        *)
(* further: a directory max_depth + 1 levels below the root can be         *)
(* matched (and its subtree is then measured), none deeper is examined.    *)
(***************************************************************************)
C18_DescentWithinBound ==
    \A i \in DOMAIN stack :
       stack[i].fn = "depth_search" =>
          /\ stack[i].depth = Level(stack[i].node)
          /\ Level(stack[i].node) <= max_depth

\* the directories taken as junk: already matched, or being measured
ExaminedAndTaken ==
    {Resolve(cur.files[i]) : i \in DOMAIN cur.files}
       \cup {stack[i].node : i \in {j \in DOMAIN stack :
                                       /\ stack[j].fn = "dir_size"
                                       /\ (j = 1 \/ stack[j - 1].fn = "depth_search")}}

C18_DepthBound ==
    /\ C18_DescentWithinBound
    /\ DevActive => \A n \in ExaminedAndTaken : Level(n) <= max_depth + 1

\* C18 as claimed: no directory deeper than max_depth levels is examined
C18_NothingBelowBoundExamined ==
    /\ C18_DescentWithinBound
    /\ DevActive => \A n \in ExaminedAndTaken : Level(n) <= max_depth

C18_Witness ==
    /\ DevActive /\ pc = "store" /\ ~cancelled
    /\ 38 \in ExaminedAndTaken /\ Level(38) = max_depth + 1
    /\ StaleJunk(37) /\ Level(37) = max_depth + 2 /\ 37 \notin ExaminedAndTaken

(***************************************************************************)
(* C19. For a category of the generic scanner or of the developer-junk     *)
(* scanner, file_count is the number of matched paths in every reachable   *)
(* state, also when cancel() cuts the scan short and when a size read      *)
(* fails: count and path change together.                                  *)
(***************************************************************************)
WalkedRule(k) ==
    \E i \in DOMAIN rules : rules[i].id = k /\ rules[i].special # "recycle_bin"

C19_CountIsNumberOfPaths ==
    /\ (GenericActive \/ DevActive) => cur.file_count = Len(cur.files)
    /\ \A k \in DOMAIN results :
          WalkedRule(k) => results[k].file_count = Len(results[k].files)

C19_Witness ==
    /\ DevActive /\ pc = "store" /\ cancelled
    /\ index \in faulted
    /\ cur.file_count > 0 /\ cur.file_count = Len(cur.files)
    /\ \E k \in DOMAIN results : WalkedRule(k) /\ results[k].file_count > 0

(***************************************************************************)
(* C20. A rule that has passed the top of the loop is left only by being   *)
(* stored: cancel() does not take it out of the result mapping.  What is   *)
(* stored is the result as it stands when the scanner returns, and once    *)
(* the flag is set nothing is added to it but a junk directory whose       *)
(* measuring was under way; a rule cancelled before its first entry is     *)
(* stored with zero totals.                                                *)
(***************************************************************************)
C20_CancelledRuleIsStored ==
    /\ [][(InRule /\ pc # "store") => (InRule' /\ index' = index)]_vars
    /\ [][(pc = "store" /\ pc' # "store") =>
             /\ pc' = "loop"
             /\ cur.item_id = CurRule.id
             /\ cur.item_id \in DOMAIN results'
             /\ results'[cur.item_id] = cur]_vars
    /\ [][(InRule /\ pc \notin {"dispatch", "store"} /\ cancelled
              /\ ~(DirSizeVisit \/ DirSizeReturn)) => cur' = cur]_vars
    /\ [](progress_callback /\ pc = "final" =>
             \A i \in DOMAIN notified : rules[i].id \in DOMAIN results)

C20_Witness ==
    /\ pc = "final" /\ cancelled /\ cancel_requested
    /\ index > 1
    /\ rules[index - 1].special = "none"
    /\ LET r == results[rules[index - 1].id]
       IN /\ Len(r.files) > 0
          /\ Len(r.files) < Len(RefItem(rules[index - 1], FALSE))
          /\ r.total_size > 0

====
